---- MODULE Spec2Model ----
(***************************************************************************)
(* A model of tacotron2/data_utils.py: the two dataset loaders             *)
(* (PPG_MelLoader, TextMelLoader) and the batch collator                   *)
(* (TextMelCollate).                                                       *)
(*                                                                         *)
(* Python sequences are modelled as TLA+ sequences, so row / position i    *)
(* of the code (0-based) is index i+1 here.                                *)
(***************************************************************************)
EXTENDS Integers, Sequences, FiniteSets, TLC

(***************************************************************************)
(* Bounds of the model.                                                    *)
(***************************************************************************)
MaxBatch == 3
MaxTextLen == 2
MaxMelLen == 2
MaxFramesPerStep == 2
MaxManifest == 3

VARIABLES
    \* ---- TextMelCollate ----
    batch,                  \* the argument of __call__: a list of (text, mel)
    n_frames_per_step,      \* self.n_frames_per_step
    ids_sorted_decreasing,  \* the local of __call__ of that name
    collated,               \* the five returned tensors
    cpc,                    \* "ready", "returned" or the exception raised
    \* ---- PPG_MelLoader / TextMelLoader ----
    loader,                 \* which class was constructed, and its hparams
    manifest,               \* what load_filepaths_and_* returned
    audiopaths,             \* self.audiopaths_and_PPG / self.audiopaths_and_text
    last                    \* the last call on the loader and its outcome

collateVars == <<batch, n_frames_per_step, ids_sorted_decreasing, collated, cpc>>
loaderVars == <<loader, manifest, audiopaths, last>>
vars == <<batch, n_frames_per_step, ids_sorted_decreasing, collated, cpc,
          loader, manifest, audiopaths, last>>

(***************************************************************************)
(* Helpers on sequences and integers.                                      *)
(***************************************************************************)
Range(s) == {s[i] : i \in DOMAIN s}

Zeros(n) == [i \in 1..n |-> 0]

MaxOf(S) == CHOOSE m \in S : \A x \in S : x <= m

MinInt(a, b) == IF a <= b THEN a ELSE b

MaxInt(a, b) == IF a >= b THEN a ELSE b

(***************************************************************************)
(* TextMelCollate.__call__                                                 *)
(***************************************************************************)

\* The contents of the examples.  The collator only copies values, so every
\* symbol and every frame carries the identity of its example and position:
\* symbol p of example k, and frame t of example k (one frame stands for the
\* column of num_mels channel values at time t).  All are non-zero, so they
\* differ from the padding.
TextOf(k, len) == [p \in 1..len |-> (k - 1) * MaxTextLen + p]

MelOf(k, len) == [t \in 1..len |-> 100 * k + t]

\* The batch of n examples with the given text and mel lengths.
BatchOf(n, tl, ml) ==
    [k \in 1..n |-> [text |-> TextOf(k, tl[k]), mel |-> MelOf(k, ml[k])]]

\* [len(x[0]) for x in batch]
InputLengthsOf(b) == [k \in 1..Len(b) |-> Len(b[k].text)]

\* torch.sort(..., dim=0, descending=True) without stable=True: the values are
\* in non-increasing order; the order of equal values is not specified, so
\* every index permutation that sorts the values is a possible outcome.
TorchSortAscending(lens) ==
    { p \in Permutations(DOMAIN lens) :
        \A i \in 1..(Len(lens) - 1) : lens[p[i]] <= lens[p[i + 1]] }

TorchSortDescending(lens) ==
    { p \in Permutations(DOMAIN lens) :
        \A i \in 1..(Len(lens) - 1) : lens[p[i]] >= lens[p[i + 1]] }

\* row[:len(values)] = values on a zero-filled row of the given width
PadLeft(values, width) == Zeros(width - Len(values)) \o values

PadRight(values, width) == values \o Zeros(width - Len(values))

\* max_target_len after lines 182-185
RoundUpAlways(max_target_len, n) == max_target_len + (n - (max_target_len % n))

RoundUp(max_target_len, n) ==
    IF max_target_len % n # 0
    THEN max_target_len + (n - (max_target_len % n))
    ELSE max_target_len

\* First index (0-based) selected by the slice [start:] on a dimension of the
\* given size: a negative start counts from the end, then it is clamped.
SliceStart(start, size) ==
    IF start < 0 THEN MaxInt(start + size, 0) ELSE MinInt(start, size)

\* gate_padded[i, mel.size(1)-1:] = 1 on a zero-filled row of width T
GateRowFromLength(mel_len, T) ==
    [t \in 1..T |-> IF t - 1 >= SliceStart(mel_len, T) THEN 1 ELSE 0]

GateRow(mel_len, T) ==
    [t \in 1..T |-> IF t - 1 >= SliceStart(mel_len - 1, T) THEN 1 ELSE 0]

\* text = batch[ids_sorted_decreasing[i]][0]
TextSource(b, ids, i) == b[ids[i]].text

\* mel = batch[ids_sorted_decreasing[i]][1]
MelSourceUnsorted(b, ids, i) == b[i].mel

MelSource(b, ids, i) == b[ids[i]].mel

\* The five tensors returned for a non-empty batch b, given the index
\* permutation that torch.sort produced.
CollateOutput(b, ids, n) ==
    LET N == Len(b)
        lens == InputLengthsOf(b)
        input_lengths == [i \in 1..N |-> lens[ids[i]]]
        max_input_len == input_lengths[1]
        max_target_len == RoundUp(MaxOf({Len(b[k].mel) : k \in 1..N}), n)
    IN  [ text_padded    |-> [i \in 1..N |-> PadRight(TextSource(b, ids, i), max_input_len)],
          input_lengths  |-> input_lengths,
          mel_padded     |-> [i \in 1..N |-> PadRight(MelSource(b, ids, i), max_target_len)],
          gate_padded    |-> [i \in 1..N |-> GateRow(Len(MelSource(b, ids, i)), max_target_len)],
          output_lengths |-> [i \in 1..N |-> Len(MelSource(b, ids, i))] ]

NoOutput ==
    [ text_padded |-> <<>>, input_lengths |-> <<>>, mel_padded |-> <<>>,
      gate_padded |-> <<>>, output_lengths |-> <<>> ]

\* __call__ on a non-empty batch returns the five tensors.
Collate ==
    /\ cpc = "ready"
    /\ Len(batch) > 0
    /\ \E ids \in TorchSortDescending(InputLengthsOf(batch)) :
          /\ ids_sorted_decreasing' = ids
          /\ collated' = CollateOutput(batch, ids, n_frames_per_step)
    /\ cpc' = "returned"
    /\ UNCHANGED <<batch, n_frames_per_step, loaderVars>>

\* __call__ on an empty batch: input_lengths[0] indexes a tensor of size 0.
CollateEmpty ==
    /\ cpc = "ready"
    /\ Len(batch) = 0
    /\ cpc' = "IndexError"
    /\ UNCHANGED <<batch, n_frames_per_step, ids_sorted_decreasing, collated, loaderVars>>

NoLoader == [class |-> "none"]

InitCollate ==
    /\ \E n \in 0..MaxBatch :
          \E tl \in [1..n -> 0..MaxTextLen] : \E ml \in [1..n -> 0..MaxMelLen] :
              batch = BatchOf(n, tl, ml)
    /\ n_frames_per_step \in 1..MaxFramesPerStep
    /\ ids_sorted_decreasing = <<>>
    /\ collated = NoOutput
    /\ cpc = "ready"
    /\ loader = NoLoader
    /\ manifest = <<>>
    /\ audiopaths = <<>>
    /\ last = [op |-> "none"]

NextCollate == Collate \/ CollateEmpty

SpecCollate == InitCollate /\ [][NextCollate]_vars

(***************************************************************************)
(* PPG_MelLoader and TextMelLoader                                         *)
(***************************************************************************)

\* What the configuration and the files can hold.
SampleRates == {16000, 22050}

MelChannels == {40, 80}

\* hparams.sampling_rate and hparams.n_mel_channels of the configuration
ConfiguredSampleRates == {22050}

ConfiguredMelChannels == {80}

\* An audio path stands for what is read at it: the sample rate
\* load_wav_to_torch reports, and the first dimension of the array np.load
\* returns.
AudioFiles == [sampling_rate : SampleRates, dim0 : MelChannels]

\* The second field of a manifest line: a PPG path or a text.
AuxData == {"aux"}

ManifestEntries == AudioFiles \X AuxData

\* What encoder.embed_utterance may hand back.
EmbeddingTypes == {"numpy.ndarray", "list"}

LoaderClasses == {"PPG_MelLoader", "TextMelLoader"}

Loaders ==
    [ class : LoaderClasses, load_mel_from_disk : BOOLEAN,
      sampling_rate : ConfiguredSampleRates, n_mel_channels : ConfiguredMelChannels ]

\* x[i], x[j] = x[j], x[i]  (i, j are 0-based)
SwapLossy(x, i, j) == [x EXCEPT ![i + 1] = x[j + 1]]

Swap(x, i, j) == [x EXCEPT ![i + 1] = x[j + 1], ![j + 1] = x[i + 1]]

\* random.shuffle(x): for i in reversed(range(1, len(x))): j = randbelow(i + 1);
\* swap x[i], x[j].  draws[i] is the j the seeded generator yields at step i.
RECURSIVE ShuffleFrom(_, _, _)
ShuffleFrom(x, i, draws) ==
    IF i < 1 THEN x ELSE ShuffleFrom(Swap(x, i, draws[i]), i - 1, draws)

Shuffle(x, draws) == ShuffleFrom(x, Len(x) - 1, draws)

\* The streams of draws a seed can produce for a list of length M.
DrawsFor(M) == { d \in [1..(M - 1) -> 0..(M - 1)] : \A i \in 1..(M - 1) : d[i] <= i }

Returned(v) == [outcome |-> "returned", value |-> v]

Raised(e) == [outcome |-> e, value |-> "none"]

\* "{} {} SR doesn't match target {} SR".format(sampling_rate,
\* self.stft.sampling_rate): the replacement fields of the message and the
\* arguments given to format.
FormatFields == 3

FormatArgs == 2

\* raise ValueError("...".format(...)): format is evaluated first and raises
\* IndexError when a field has no argument.
SampleRateError == IF FormatArgs < FormatFields THEN "IndexError" ELSE "ValueError"

\* sampling_rate != self.stft.sampling_rate
SampleRateDiffers(file_rate, target_rate) == file_rate # target_rate

\* melspec.size(0) == self.stft.n_mel_channels
MelDimensionUnchecked(dim0, n_mel_channels) == TRUE

MelDimensionMatches(dim0, n_mel_channels) == dim0 = n_mel_channels

\* get_mel(filename), of both classes
get_mel(ld, file) ==
    IF ~ld.load_mel_from_disk
    THEN IF SampleRateDiffers(file.sampling_rate, ld.sampling_rate)
         THEN Raised(SampleRateError)
         ELSE Returned([dim0 |-> ld.n_mel_channels, source |-> "stft"])
    ELSE IF MelDimensionMatches(file.dim0, ld.n_mel_channels)
         THEN Returned([dim0 |-> file.dim0, source |-> "disk"])
         ELSE Raised("AssertionError")

\* type(speaker_embedding) == "np.ndarray": a type object compared with a str
TypeObject(name) == [kind |-> "type", name |-> name]

StrObject(chars) == [kind |-> "str", name |-> chars]

EmbeddingTypeAccepted(emb_type) == TypeObject(emb_type) = StrObject("np.ndarray")

\* get_ppg(PPG, speaker_embedding): the loop rebinds frame and leaves PPG_temp
\* as loaded.
get_ppg(ppg, emb_type) ==
    IF EmbeddingTypeAccepted(emb_type) THEN Returned(ppg) ELSE Raised("AssertionError")

\* get_mel_PPG_pair(audiopath_and_PPG)
get_mel_PPG_pair(ld, entry, emb_type) ==
    LET PPG == get_ppg(entry[2], emb_type)
        mel == get_mel(ld, entry[1])
    IN  IF PPG.outcome # "returned" THEN PPG
        ELSE IF mel.outcome # "returned" THEN mel
        ELSE Returned(<<PPG.value, mel.value>>)

\* get_mel_text_pair(audiopath_and_text)
get_mel_text_pair(ld, entry) ==
    LET mel == get_mel(ld, entry[1])
    IN  IF mel.outcome # "returned" THEN mel
        ELSE Returned(<<entry[2], mel.value>>)

\* The methods PPG_MelLoader defines; __getitem__ calls get_mel_PPG_id_pair.
PPGMethods ==
    {"__init__", "get_mel_PPG_pair", "get_id", "get_mel", "get_ppg",
     "__getitem__", "__len__"}

\* __getitem__(index)
getitem(ld, paths, index, emb_type) ==
    IF ld.class = "PPG_MelLoader"
    THEN IF "get_mel_PPG_id_pair" \notin PPGMethods
         THEN Raised("AttributeError")
         ELSE IF index >= Len(paths) THEN Raised("IndexError")
         ELSE get_mel_PPG_pair(ld, paths[index + 1], emb_type)
    ELSE IF index >= Len(paths) THEN Raised("IndexError")
         ELSE get_mel_text_pair(ld, paths[index + 1])

Called(op, arg, emb_type, result) ==
    [op |-> op, arg |-> arg, emb |-> emb_type,
     outcome |-> result.outcome, value |-> result.value]

\* __len__()
LenCall ==
    /\ loader # NoLoader
    /\ last' = Called("__len__", "none", "none", Returned(Len(audiopaths)))
    /\ UNCHANGED <<loader, manifest, audiopaths, collateVars>>

\* __getitem__(index), for an index of the list and for the first one past it
GetItemCall ==
    /\ loader # NoLoader
    /\ \E index \in 0..Len(audiopaths) : \E emb_type \in EmbeddingTypes :
          last' = Called("__getitem__", index, emb_type,
                         getitem(loader, audiopaths, index, emb_type))
    /\ UNCHANGED <<loader, manifest, audiopaths, collateVars>>

\* get_mel(filename)
GetMelCall ==
    /\ loader # NoLoader
    /\ \E file \in AudioFiles :
          last' = Called("get_mel", file, "none", get_mel(loader, file))
    /\ UNCHANGED <<loader, manifest, audiopaths, collateVars>>

\* get_mel_PPG_pair(audiopath_and_PPG)
GetMelPPGPairCall ==
    /\ loader # NoLoader
    /\ loader.class = "PPG_MelLoader"
    /\ \E entry \in ManifestEntries : \E emb_type \in EmbeddingTypes :
          last' = Called("get_mel_PPG_pair", entry, emb_type,
                         get_mel_PPG_pair(loader, entry, emb_type))
    /\ UNCHANGED <<loader, manifest, audiopaths, collateVars>>

\* get_mel_text_pair(audiopath_and_text)
GetMelTextPairCall ==
    /\ loader # NoLoader
    /\ loader.class = "TextMelLoader"
    /\ \E entry \in ManifestEntries :
          last' = Called("get_mel_text_pair", entry, "none",
                         get_mel_text_pair(loader, entry))
    /\ UNCHANGED <<loader, manifest, audiopaths, collateVars>>

\* The state after __init__: the manifest is loaded and shuffled once.
InitLoader ==
    /\ loader \in Loaders
    /\ \E M \in 0..MaxManifest : \E m \in [1..M -> ManifestEntries] :
          \E draws \in DrawsFor(M) :
              /\ manifest = m
              /\ audiopaths = Shuffle(m, draws)
    /\ last = [op |-> "none"]
    /\ batch = <<>>
    /\ n_frames_per_step = 1
    /\ ids_sorted_decreasing = <<>>
    /\ collated = NoOutput
    /\ cpc = "idle"

NextLoader ==
    \/ LenCall
    \/ GetItemCall
    \/ GetMelCall
    \/ GetMelPPGPairCall
    \/ GetMelTextPairCall

SpecLoader == InitLoader /\ [][NextLoader]_vars

(***************************************************************************)
(* Properties of TextMelCollate.__call__ (checked under SpecCollate)       *)
(***************************************************************************)
Rows == 1..Len(batch)

\* The padded target length T: the width of the gate rows.
PaddedTargetLen == Len(collated.gate_padded[1])

LargestTargetLen == MaxOf({Len(batch[k].mel) : k \in Rows})

LargestInputLen == MaxOf({Len(batch[k].text) : k \in Rows})

\* C1: after a call on a non-empty batch there is one permutation s of the
\* batch indices (the one the sort produced) along which the input lengths
\* are non-increasing and such that row i of text_padded, input_lengths,
\* mel_padded, gate_padded and output_lengths all come from example
\* batch[s(i)].
C1_ConsistentIndexing ==
    cpc = "returned" =>
        LET s == ids_sorted_decreasing
        IN  /\ Len(s) = Len(batch)
            /\ Range(s) = Rows
            /\ \A i \in Rows : \A j \in Rows :
                  i < j => collated.input_lengths[i] >= collated.input_lengths[j]
            /\ \A i \in Rows :
                  LET text == batch[s[i]].text
                      mel == batch[s[i]].mel
                  IN  /\ collated.input_lengths[i] = Len(text)
                      /\ SubSeq(collated.text_padded[i], 1, Len(text)) = text
                      /\ collated.output_lengths[i] = Len(mel)
                      /\ SubSeq(collated.mel_padded[i], 1, Len(mel)) = mel
                      /\ Len(mel) >= 1 => collated.gate_padded[i][Len(mel)] = 1
                      /\ Len(mel) >= 2 => collated.gate_padded[i][Len(mel) - 1] = 0

\* Input lengths (low, high, middle), as in [3,7,5], come out as rows
\* (high, middle, low), with the targets of three different lengths following.
C1_Witness ==
    /\ cpc = "returned"
    /\ Len(batch) = 3
    /\ Len(batch[1].text) < Len(batch[3].text)
    /\ Len(batch[3].text) < Len(batch[2].text)
    /\ collated.input_lengths = <<Len(batch[2].text), Len(batch[3].text), Len(batch[1].text)>>
    /\ collated.output_lengths = <<1, 2, 0>>

\* C2: the time dimension T of mel_padded and gate_padded is a multiple of
\* n_frames_per_step, at least the largest target length, and the smallest
\* such multiple.
C2_PaddedLengthRoundedUp ==
    cpc = "returned" =>
        /\ \A i \in Rows :
              /\ Len(collated.mel_padded[i]) = PaddedTargetLen
              /\ Len(collated.gate_padded[i]) = PaddedTargetLen
        /\ PaddedTargetLen % n_frames_per_step = 0
        /\ PaddedTargetLen >= LargestTargetLen
        /\ PaddedTargetLen - LargestTargetLen < n_frames_per_step

\* A largest target length that is already a multiple of a factor > 1.
C2_Witness ==
    /\ cpc = "returned"
    /\ n_frames_per_step > 1
    /\ LargestTargetLen > 0
    /\ LargestTargetLen % n_frames_per_step = 0
    /\ PaddedTargetLen = LargestTargetLen

\* C3: for a row whose example has true target length L >= 1, the stop flags
\* are 0 at code indices 0..L-2 and 1 at L-1..T-1, and output_lengths is L.
C3_StopFlags ==
    cpc = "returned" =>
        \A i \in Rows :
            LET L == Len(batch[ids_sorted_decreasing[i]].mel)
            IN  L >= 1 =>
                  /\ collated.output_lengths[i] = L
                  /\ \A t \in 1..PaddedTargetLen :
                        collated.gate_padded[i][t] = (IF t < L THEN 0 ELSE 1)

\* One row with real frames before its last one (flags 0 then 1), and one
\* row with padding after its last real frame (flags 1 to the end).
C3_Witness ==
    /\ cpc = "returned"
    /\ \E i \in Rows :
          /\ collated.output_lengths[i] >= 2
          /\ collated.gate_padded[i][1] = 0
          /\ collated.gate_padded[i][collated.output_lengths[i]] = 1
    /\ \E i \in Rows :
          /\ collated.output_lengths[i] >= 1
          /\ collated.output_lengths[i] < PaddedTargetLen
          /\ collated.gate_padded[i][PaddedTargetLen] = 1

\* C4: text_padded has N rows of width max input length, each row holding its
\* example's symbols left-aligned and zeros after them; and a batch with
\* zero-length inputs next to a longer one is collated without raising.
C4_TextPadded ==
    /\ cpc = "returned" =>
          /\ Len(collated.text_padded) = Len(batch)
          /\ \A i \in Rows :
                LET text == batch[ids_sorted_decreasing[i]].text
                    row == collated.text_padded[i]
                IN  /\ Len(row) = LargestInputLen
                    /\ \A p \in 1..Len(row) :
                          row[p] = (IF p <= Len(text) THEN text[p] ELSE 0)
    /\ ( /\ cpc # "ready"
         /\ \E k \in Rows : Len(batch[k].text) = 0
         /\ \E k \in Rows : Len(batch[k].text) > 0 ) => cpc = "returned"

\* A zero-length input next to a longer one, collated.
C4_Witness ==
    /\ cpc = "returned"
    /\ \E k \in Rows : Len(batch[k].text) = 0
    /\ \E k \in Rows : Len(batch[k].text) = LargestInputLen /\ LargestInputLen >= 2
    /\ \E i \in Rows : collated.text_padded[i] = Zeros(LargestInputLen)

\* The row an example of the batch is placed at.
RowOf(k) == CHOOSE i \in Rows : ids_sorted_decreasing[i] = k

\* C9 as stated: rows are ordered by input length descending and examples of
\* equal input length keep their original order.
C9_StableTies ==
    cpc = "returned" =>
        \A a \in Rows : \A b \in Rows :
            /\ Len(batch[a].text) > Len(batch[b].text) => RowOf(a) < RowOf(b)
            /\ (a < b /\ Len(batch[a].text) = Len(batch[b].text)) => RowOf(a) < RowOf(b)

\* C9 amended: rows are ordered by input length descending in every output;
\* the order of examples of equal input length is not fixed.
C9_DescendingOrder ==
    cpc = "returned" =>
        \A a \in Rows : \A b \in Rows :
            Len(batch[a].text) > Len(batch[b].text) =>
                /\ RowOf(a) < RowOf(b)
                /\ collated.input_lengths[RowOf(a)] > collated.input_lengths[RowOf(b)]
                /\ collated.output_lengths[RowOf(a)] = Len(batch[a].mel)
                /\ collated.output_lengths[RowOf(b)] = Len(batch[b].mel)

\* Two examples of equal input length come out in reverse order, after a
\* longer one that came last in the batch.
C9_Witness ==
    /\ cpc = "returned"
    /\ Len(batch) = 3
    /\ Len(batch[1].text) = Len(batch[2].text)
    /\ Len(batch[3].text) > Len(batch[1].text)
    /\ ids_sorted_decreasing = <<3, 2, 1>>

\* C10: every padded position of a gate row (code indices L..T-1, L the true
\* target length of the row's example, L = 0 included) has stop flag 1.
C10_PaddingFlagged ==
    cpc = "returned" =>
        \A i \in Rows :
            LET L == Len(batch[ids_sorted_decreasing[i]].mel)
            IN  \A t \in (L + 1)..PaddedTargetLen : collated.gate_padded[i][t] = 1

(***************************************************************************)
(* Properties of the loaders (checked under SpecLoader)                    *)
(***************************************************************************)
IsPermutationOf(a, b) ==
    /\ Len(a) = Len(b)
    /\ \E p \in Permutations(1..Len(a)) : \A i \in 1..Len(a) : a[i] = b[p[i]]

\* C5: the loader's entry list is a permutation of the loaded manifest, no
\* call changes it, and __len__ returns the number of manifest entries.
C5_EntriesPermutation ==
    [][ /\ IsPermutationOf(audiopaths, manifest)
        /\ audiopaths' = audiopaths
        /\ last'.op = "__len__" => last'.value = Len(manifest) ]_vars

\* __len__ after a __getitem__, on a list the shuffle has reordered.
C5_Witness ==
    /\ Len(manifest) >= 3
    /\ audiopaths # manifest
    /\ audiopaths[1] = manifest[2]
    /\ last.op = "__len__"
    /\ last.value = Len(manifest)

\* C6: get_mel computing from the waveform raises ValueError exactly when the
\* file's sample rate differs from the configured one.
C6_SampleRateValueError ==
    (last.op = "get_mel" /\ ~loader.load_mel_from_disk) =>
        (last.outcome = "ValueError" <=> last.arg.sampling_rate # loader.sampling_rate)

\* C7: get_mel loading from storage returns only arrays whose first dimension
\* is the configured channel count, and fails its assertion on any other.
C7_ChannelCountChecked ==
    (last.op = "get_mel" /\ loader.load_mel_from_disk) =>
        /\ last.outcome = "returned" => last.value.dim0 = loader.n_mel_channels
        /\ last.arg.dim0 # loader.n_mel_channels => last.outcome = "AssertionError"
        /\ last.arg.dim0 = loader.n_mel_channels => last.outcome = "returned"

\* A stored array with another channel count: the load fails.
C7_Witness ==
    /\ last.op = "get_mel"
    /\ loader.load_mel_from_disk
    /\ last.arg.dim0 # loader.n_mel_channels
    /\ last.outcome = "AssertionError"

\* C8: __getitem__ of a PPG_MelLoader, for an index of the list whose
\* spectrogram matches the configuration and whose embedding is a numpy
\* vector, returns a pair.
C8_GetItemReturnsPair ==
    ( /\ last.op = "__getitem__"
      /\ loader.class = "PPG_MelLoader"
      /\ last.arg < Len(audiopaths)
      /\ last.emb = "numpy.ndarray"
      /\ get_mel(loader, audiopaths[last.arg + 1][1]).outcome = "returned" )
    => last.outcome = "returned"

====
